---- MODULE Spec2Model ----
(***************************************************************************)
(* ScreenSpaceSizer (src/screen_space_sizer.hpp): projection of the eight  *)
(* corners of an axis-aligned box through a camera, reduction to a pixel   *)
(* or NDC rectangle, classification of the rectangle's minimum dimension,  *)
(* and the screen-space quad.                                              *)
(*                                                                         *)
(* Floats are modelled as exact rationals n/d together with the IEEE       *)
(* specials +inf, -inf and NaN and the two sentinels                       *)
(* numeric_limits<float>::max() and ::lowest(), which compare above and    *)
(* below every finite value the bounded inputs can produce.  Rounding is   *)
(* not modelled; zero is unsigned (+0).  Matrix entries and point          *)
(* coordinates are small integers, on which float arithmetic is exact, so  *)
(* world and clip coordinates are computed on integers and the first       *)
(* non-integer values appear at the perspective divide.                    *)
(***************************************************************************)
EXTENDS Integers, Sequences, FiniteSets, TLC

VARIABLES
    window_width,    \* the caller's unsigned int the sizer's screen_width_px refers to
    window_height,   \* the caller's unsigned int the sizer's screen_height_px refers to
    scene_camera,    \* the caller's ICamera the sizer's camera refers to
    obj,             \* the caller's renderable: [xyz_positions, transform]
    ret              \* the value returned by the call that has just completed

vars == <<window_width, window_height, scene_camera, obj, ret>>

(***************************************************************************)
(* Bounds of the model.                                                    *)
(***************************************************************************)
MaxExtent == 2       \* local boxes span 0..a in x and 0..b in y with a, b in 0..MaxExtent

(***************************************************************************)
(* float                                                                   *)
(***************************************************************************)
Abs(i) == IF i < 0 THEN -i ELSE i

RECURSIVE GCD(_, _)
GCD(a, b) == IF b = 0 THEN a ELSE GCD(b, a % b)

\* the rational n/d in lowest terms with a positive denominator
F(n, d) ==
    LET s == IF d < 0 THEN -1 ELSE 1
        g == GCD(Abs(n), Abs(d))
    IN  [k |-> "fin", n |-> (s * n) \div g, d |-> (s * d) \div g]

I(i) == [k |-> "fin", n |-> i, d |-> 1]

NaN == [k |-> "nan", n |-> 0, d |-> 1]
PInf == [k |-> "pinf", n |-> 0, d |-> 1]
NInf == [k |-> "ninf", n |-> 0, d |-> 1]
FLT_MAX == [k |-> "max", n |-> 0, d |-> 1]
FLT_LOWEST == [k |-> "lowest", n |-> 0, d |-> 1]

Half == F(1, 2)
Zero == I(0)
One == I(1)

Rank(a) ==
    CASE a.k = "ninf" -> 0
      [] a.k = "lowest" -> 1
      [] a.k = "fin" -> 2
      [] a.k = "max" -> 3
      [] a.k = "pinf" -> 4

\* operator< on float: false when either side is NaN
Lt(a, b) ==
    IF a.k = "nan" \/ b.k = "nan" THEN FALSE
    ELSE IF a.k = "fin" /\ b.k = "fin" THEN a.n * b.d < b.n * a.d
    ELSE Rank(a) < Rank(b)

\* operator== on float
FEq(a, b) == a.k # "nan" /\ b.k # "nan" /\ a = b

Le(a, b) == Lt(a, b) \/ FEq(a, b)

isfinite(a) == a.k \in {"fin", "max", "lowest"}

Sign(a) ==
    CASE a.k = "pinf" -> 1
      [] a.k = "ninf" -> -1
      [] a.k = "fin" -> IF a.n > 0 THEN 1 ELSE IF a.n < 0 THEN -1 ELSE 0

Inf(s) == IF s > 0 THEN PInf ELSE NInf

Neg(a) ==
    CASE a.k = "nan" -> NaN
      [] a.k = "pinf" -> NInf
      [] a.k = "ninf" -> PInf
      [] a.k = "fin" -> [a EXCEPT !.n = -a.n]

Add(a, b) ==
    IF a.k = "nan" \/ b.k = "nan" THEN NaN
    ELSE IF a.k = "fin" /\ b.k = "fin" THEN F(a.n * b.d + b.n * a.d, a.d * b.d)
    ELSE IF a.k = "fin" THEN b
    ELSE IF b.k = "fin" THEN a
    ELSE IF a.k = b.k THEN a
    ELSE NaN

Sub(a, b) == Add(a, Neg(b))

Mul(a, b) ==
    IF a.k = "nan" \/ b.k = "nan" THEN NaN
    ELSE IF a.k = "fin" /\ b.k = "fin" THEN F(a.n * b.n, a.d * b.d)
    ELSE IF Sign(a) = 0 \/ Sign(b) = 0 THEN NaN
    ELSE Inf(Sign(a) * Sign(b))

Div(a, b) ==
    IF a.k = "nan" \/ b.k = "nan" THEN NaN
    ELSE IF a.k = "fin" /\ b.k = "fin" THEN
        IF b.n = 0 THEN (IF a.n = 0 THEN NaN ELSE Inf(Sign(a)))
        ELSE F(a.n * b.d, a.d * b.n)
    ELSE IF a.k = "fin" THEN Zero
    ELSE IF b.k = "fin" THEN Inf(Sign(a) * (IF Sign(b) < 0 THEN -1 ELSE 1))
    ELSE NaN

\* std::min(a, b): (b < a) ? b : a
std_min(a, b) == IF Lt(b, a) THEN b ELSE a

\* std::max(a, b): (a < b) ? b : a
std_max(a, b) == IF Lt(a, b) THEN b ELSE a

\* std::clamp(v, lo, hi): (v < lo) ? lo : (hi < v) ? hi : v
std_clamp(v, lo, hi) == IF Lt(v, lo) THEN lo ELSE IF Lt(hi, v) THEN hi ELSE v

(***************************************************************************)
(* glm: a mat4 is its four columns, model[0] .. model[3], as in glm.       *)
(***************************************************************************)
\* mat4 * vec4
MatVec(m, v) ==
    [r \in 1..4 |-> m[1][r] * v[1] + m[2][r] * v[2] + m[3][r] * v[3] + m[4][r] * v[4]]

\* mat4 * mat4
MatMul(a, b) == [c \in 1..4 |-> MatVec(a, b[c])]

Identity == << <<1, 0, 0, 0>>, <<0, 1, 0, 0>>, <<0, 0, 1, 0>>, <<0, 0, 0, 1>> >>

\* a model matrix with the diagonal scale (sx, sy, sz) and the translation (tx, ty, tz)
ScaleTranslate(sx, sy, sz, tx, ty, tz) ==
    << <<sx, 0, 0, 0>>, <<0, sy, 0, 0>>, <<0, 0, sz, 0>>, <<tx, ty, tz, 1>> >>

(***************************************************************************)
(* vertex_geometry::AxisAlignedBoundingBox, as the sizer uses it: built    *)
(* from a non-empty point list, it yields its eight corners in a fixed     *)
(* order.                                                                  *)
(***************************************************************************)
RECURSIVE MinOver(_, _, _)
MinOver(pts, axis, i) ==
    IF i = Len(pts) THEN pts[i][axis]
    ELSE LET rest == MinOver(pts, axis, i + 1)
         IN  IF pts[i][axis] < rest THEN pts[i][axis] ELSE rest

RECURSIVE MaxOver(_, _, _)
MaxOver(pts, axis, i) ==
    IF i = Len(pts) THEN pts[i][axis]
    ELSE LET rest == MaxOver(pts, axis, i + 1)
         IN  IF pts[i][axis] > rest THEN pts[i][axis] ELSE rest

AxisAlignedBoundingBox(xyz_positions) ==
    [min |-> [axis \in 1..3 |-> MinOver(xyz_positions, axis, 1)],
     max |-> [axis \in 1..3 |-> MaxOver(xyz_positions, axis, 1)]]

get_corners(box) ==
    << <<box.min[1], box.min[2], box.min[3]>>,
       <<box.max[1], box.min[2], box.min[3]>>,
       <<box.max[1], box.max[2], box.min[3]>>,
       <<box.min[1], box.max[2], box.min[3]>>,
       <<box.min[1], box.min[2], box.max[3]>>,
       <<box.max[1], box.min[2], box.max[3]>>,
       <<box.max[1], box.max[2], box.max[3]>>,
       <<box.min[1], box.max[2], box.max[3]>> >>

(***************************************************************************)
(* The callers' side: viewports, cameras and renderables.                  *)
(***************************************************************************)
\* viewport dimensions <<width, height>> (unsigned int), 0 included: a minimised
\* window
Viewports == {<<40, 40>>, <<4, 40>>, <<40, 4>>, <<40, 0>>, <<0, 0>>}

InitialViewport == <<40, 40>>

\* a perspective projection with clip = (x, y, -z - 2, -z)
PerspectiveProj == << <<1, 0, 0, 0>>, <<0, 1, 0, 0>>, <<0, 0, -1, -1>>, <<0, 0, -2, 0>> >>

\* the camera at the origin and at z = +4, both looking down -Z
CameraAtOrigin == [view |-> Identity, proj |-> PerspectiveProj]
CameraFurther == [view |-> ScaleTranslate(1, 1, 1, 0, 0, -4), proj |-> PerspectiveProj]
Cameras == {CameraAtOrigin, CameraFurther}

\* local point lists: empty, or the two extreme points of a box at the local
\* origin, flat or one unit deep in z
PointLists ==
    {<<>>} \cup {<< <<0, 0, 0>>, <<a, b, c>> >> : a \in 0..MaxExtent, b \in 0..MaxExtent,
                                                  c \in {0, 1}}

\* local -> world transform matrices
Transforms ==
    {ScaleTranslate(1, 1, 1, 0, 0, -4),      \* in front of the camera
     ScaleTranslate(1, 1, 2, 0, 0, -2),      \* reaching the eye plane z = 0
     ScaleTranslate(1, 1, 1, 0, 0, 1),       \* behind the camera at the origin
     ScaleTranslate(1, 1, 1, 6, 0, -4),      \* off-screen to the right
     ScaleTranslate(1, 1, 1, 3, -1, -4),     \* across the right edge
     ScaleTranslate(2, 1, 1, -2, -2, -4)}    \* non-uniform scale

(***************************************************************************)
(* ScreenSpaceSizer                                                        *)
(***************************************************************************)
\* screen_width_px as a copy taken by the constructor instead of a reference
screen_width_px_copied == InitialViewport[1]

\* the reference members: reading one reads the caller's variable
camera == scene_camera
screen_width_px == window_width
screen_height_px == window_height

get_aabb_corners_world(box, transform) ==
    LET model == transform
        col0 == <<model[1][1], model[1][2], model[1][3]>>
        col1 == <<model[2][1], model[2][2], model[2][3]>>
        col2 == <<model[3][1], model[3][2], model[3][3]>>
        col3 == <<model[4][1], model[4][2], model[4][3]>>
        corners == get_corners(box)
    IN  [i \in 1..8 |->
            [r \in 1..3 |-> col0[r] * corners[i][1] + col1[r] * corners[i][2]
                            + col2[r] * corners[i][3] + col3[r]]]

project_to_ndc(world_pos, cam) ==
    LET view == cam.view
        proj == cam.proj
        clip == MatVec(MatMul(proj, view), <<world_pos[1], world_pos[2], world_pos[3], 1>>)
    IN  IF FEq(I(clip[4]), Zero) THEN <<Zero, Zero>>
        ELSE <<Div(I(clip[1]), I(clip[4])), Div(I(clip[2]), I(clip[4]))>>

project_to_screen(world_pos, cam, width_px, height_px) ==
    LET view == cam.view
        proj == cam.proj
        transform == MatMul(proj, view)
        clip == MatVec(transform, <<world_pos[1], world_pos[2], world_pos[3], 1>>)
        ndc_x == Div(I(clip[1]), I(clip[4]))
        ndc_y == Div(I(clip[2]), I(clip[4]))
    IN  <<Mul(Add(Mul(ndc_x, Half), Half), I(width_px)),
          Mul(Sub(One, Add(Mul(ndc_y, Half), Half)), I(height_px))>>

\* AABB2D
width(bb) == std_max(Zero, Sub(bb.max[1], bb.min[1]))
height(bb) == std_max(Zero, Sub(bb.max[2], bb.min[2]))
min_dimension(bb) == std_min(width(bb), height(bb))

\* the min/max accumulators before the first corner is folded in
Sentinels == [min_x |-> FLT_MAX, min_y |-> FLT_MAX, max_x |-> FLT_LOWEST, max_y |-> FLT_LOWEST]

\* one iteration of the reduction loops
FoldCorner(acc, p) ==
    [min_x |-> std_min(acc.min_x, p[1]), max_x |-> std_max(acc.max_x, p[1]),
     min_y |-> std_min(acc.min_y, p[2]), max_y |-> std_max(acc.max_y, p[2])]

\* the loop of compute_pixel_bounding_box over corners i..8
RECURSIVE PixelLoop(_, _, _, _, _, _)
PixelLoop(corners, i, acc, cam, width_px, height_px) ==
    IF i > Len(corners) THEN acc
    ELSE PixelLoop(corners, i + 1,
                   FoldCorner(acc, project_to_screen(corners[i], cam, width_px, height_px)),
                   cam, width_px, height_px)

\* compute_pixel_bounding_box with the clamp of max_x and max_y left out
compute_pixel_bounding_box_min_only(box, transform, cam, width_px, height_px) ==
    LET corners == get_aabb_corners_world(box, transform)
        acc == PixelLoop(corners, 1, Sentinels, cam, width_px, height_px)
        min_x == std_clamp(acc.min_x, Zero, I(width_px))
        min_y == std_clamp(acc.min_y, Zero, I(height_px))
    IN  [min |-> <<min_x, min_y>>, max |-> <<acc.max_x, acc.max_y>>]

\* compute_pixel_bounding_box clamping x to the height and y to the width
compute_pixel_bounding_box_swapped(box, transform, cam, width_px, height_px) ==
    LET corners == get_aabb_corners_world(box, transform)
        acc == PixelLoop(corners, 1, Sentinels, cam, width_px, height_px)
        min_x == std_clamp(acc.min_x, Zero, I(height_px))
        max_x == std_clamp(acc.max_x, Zero, I(height_px))
        min_y == std_clamp(acc.min_y, Zero, I(width_px))
        max_y == std_clamp(acc.max_y, Zero, I(width_px))
    IN  [min |-> <<min_x, min_y>>, max |-> <<max_x, max_y>>]

compute_pixel_bounding_box(box, transform, cam, width_px, height_px) ==
    LET corners == get_aabb_corners_world(box, transform)
        acc == PixelLoop(corners, 1, Sentinels, cam, width_px, height_px)
        min_x == std_clamp(acc.min_x, Zero, I(width_px))
        max_x == std_clamp(acc.max_x, Zero, I(width_px))
        min_y == std_clamp(acc.min_y, Zero, I(height_px))
        max_y == std_clamp(acc.max_y, Zero, I(height_px))
    IN  [min |-> <<min_x, min_y>>, max |-> <<max_x, max_y>>]

\* The other clamping policy of the pixel-space path (spec.md 4.3, step 3): each
\* projected corner is clamped to the viewport before it is folded in, and the
\* reduced min/max are returned as they are.
RECURSIVE PerCornerLoop(_, _, _, _, _, _)
PerCornerLoop(corners, i, acc, cam, width_px, height_px) ==
    IF i > Len(corners) THEN acc
    ELSE LET screen == project_to_screen(corners[i], cam, width_px, height_px)
         IN  PerCornerLoop(corners, i + 1,
                           FoldCorner(acc, <<std_clamp(screen[1], Zero, I(width_px)),
                                             std_clamp(screen[2], Zero, I(height_px))>>),
                           cam, width_px, height_px)

compute_pixel_bounding_box_per_corner(box, transform, cam, width_px, height_px) ==
    LET corners == get_aabb_corners_world(box, transform)
        acc == PerCornerLoop(corners, 1, Sentinels, cam, width_px, height_px)
    IN  [min |-> <<acc.min_x, acc.min_y>>, max |-> <<acc.max_x, acc.max_y>>]

LargeThreshold == 10
MediumThreshold == 5
PixelThreshold == 1

\* the threshold tests with >= in place of >
Classify_inclusive(min_pixel_dimension) ==
    IF Le(I(LargeThreshold), min_pixel_dimension) THEN "Large"
    ELSE IF Le(I(MediumThreshold), min_pixel_dimension) THEN "Medium"
    ELSE "Small"

\* the threshold tests with the two results of the first two tests exchanged
Classify_exchanged(min_pixel_dimension) ==
    IF Lt(I(LargeThreshold), min_pixel_dimension) THEN "Medium"
    ELSE IF Lt(I(MediumThreshold), min_pixel_dimension) THEN "Large"
    ELSE "Small"

\* the threshold tests of get_screen_size on min_pixel_dimension
Classify(min_pixel_dimension) ==
    IF Lt(I(LargeThreshold), min_pixel_dimension) THEN "Large"
    ELSE IF Lt(I(MediumThreshold), min_pixel_dimension) THEN "Medium"
    ELSE "Small"

get_screen_size(aabb, transform, cam, width_px, height_px) ==
    LET pixel_bounding_box == compute_pixel_bounding_box(aabb, transform, cam, width_px, height_px)
        min_pixel_dimension == min_dimension(pixel_bounding_box)
    IN  Classify(min_pixel_dimension)

\* smaller_than_pixel with the operands of its comparison swapped
smaller_than_pixel_swapped(aabb, transform, cam, width_px, height_px) ==
    LET pixel_bounding_box == compute_pixel_bounding_box(aabb, transform, cam, width_px, height_px)
        min_pixel_dimension == min_dimension(pixel_bounding_box)
    IN  Lt(I(PixelThreshold), min_pixel_dimension)

smaller_than_pixel(aabb, transform, cam, width_px, height_px) ==
    LET pixel_bounding_box == compute_pixel_bounding_box(aabb, transform, cam, width_px, height_px)
        min_pixel_dimension == min_dimension(pixel_bounding_box)
    IN  Lt(min_pixel_dimension, I(PixelThreshold))

\* draw_info::IndexedVertexPositions as value-initialised by `return {}`
EmptyIVP == [xyz_positions |-> <<>>, indices |-> <<>>, transform |-> Identity]

\* the loop of make_screen_space_ivp over corners i..8
RECURSIVE NdcLoop(_, _, _, _, _)
NdcLoop(corners, i, acc, cam, aspect) ==
    IF i > Len(corners) THEN acc
    ELSE LET ndc == project_to_ndc(corners[i], cam)
             x == Mul(ndc[1], aspect)
         IN  NdcLoop(corners, i + 1,
                     IF ~isfinite(x) \/ ~isfinite(ndc[2]) THEN acc
                     ELSE FoldCorner(acc, <<x, ndc[2]>>),
                     cam, aspect)

\* make_screen_space_ivp past its early return: box, projection, reduction, quad
screen_space_quad(o, cam, width_px, height_px) ==
    LET box == AxisAlignedBoundingBox(o.xyz_positions)
        corners_world == get_aabb_corners_world(box, o.transform)
        aspect == Div(I(width_px), I(height_px))
        acc == NdcLoop(corners_world, 1, Sentinels, cam, aspect)
        min_x == std_max(acc.min_x, Neg(aspect))
        max_x == std_min(acc.max_x, aspect)
        min_y == std_max(acc.min_y, I(-1))
        max_y == std_min(acc.max_y, One)
    IN  [xyz_positions |-> << <<min_x, min_y, Zero>>, <<max_x, min_y, Zero>>,
                              <<max_x, max_y, Zero>>, <<min_x, max_y, Zero>> >>,
         indices |-> <<0, 1, 2, 2, 3, 0>>,
         transform |-> Identity]

\* make_screen_space_ivp without the early return: an empty point list yields no
\* corners, and the quad is built from the untouched sentinels
make_screen_space_ivp_unguarded(o, cam, width_px, height_px) ==
    IF Len(o.xyz_positions) = 0
    THEN [xyz_positions |-> << <<FLT_MAX, FLT_MAX, Zero>>, <<FLT_LOWEST, FLT_MAX, Zero>>,
                               <<FLT_LOWEST, FLT_LOWEST, Zero>>, <<FLT_MAX, FLT_LOWEST, Zero>> >>,
          indices |-> <<0, 1, 2, 2, 3, 0>>,
          transform |-> Identity]
    ELSE screen_space_quad(o, cam, width_px, height_px)

make_screen_space_ivp(o, cam, width_px, height_px) ==
    IF Len(o.xyz_positions) = 0 THEN EmptyIVP
    ELSE screen_space_quad(o, cam, width_px, height_px)

NoRet == [op |-> "none", size |-> "none", flag |-> FALSE, ivp |-> EmptyIVP, reads |-> {}]

AllRefs == {"camera", "screen_width_px", "screen_height_px"}

\* the reference members a call of make_screen_space_ivp reads
ivp_reads(o) == IF Len(o.xyz_positions) = 0 THEN {} ELSE AllRefs

Init ==
    /\ window_width = InitialViewport[1]
    /\ window_height = InitialViewport[2]
    /\ scene_camera = CameraAtOrigin
    /\ obj = [xyz_positions |-> <<>>, transform |-> ScaleTranslate(1, 1, 1, 0, 0, -4)]
    /\ ret = NoRet

\* the caller resizes the viewport
Resize(w, h) ==
    /\ <<w, h>> \in Viewports
    /\ <<w, h>> # <<window_width, window_height>>
    /\ window_width' = w
    /\ window_height' = h
    /\ ret' = NoRet
    /\ UNCHANGED <<scene_camera, obj>>

\* the caller moves the camera
MoveCamera(c) ==
    /\ c # scene_camera
    /\ scene_camera' = c
    /\ ret' = NoRet
    /\ UNCHANGED <<window_width, window_height, obj>>

\* the caller's renderable gets another point list
SetPoints(ps) ==
    /\ ps # obj.xyz_positions
    /\ obj' = [obj EXCEPT !.xyz_positions = ps]
    /\ ret' = NoRet
    /\ UNCHANGED <<window_width, window_height, scene_camera>>

\* the caller's renderable gets another transform
SetTransform(t) ==
    /\ t # obj.transform
    /\ obj' = [obj EXCEPT !.transform = t]
    /\ ret' = NoRet
    /\ UNCHANGED <<window_width, window_height, scene_camera>>

\* get_screen_size(aabb, transform) on the box of the renderable's points
GetScreenSize ==
    /\ Len(obj.xyz_positions) > 0
    /\ LET aabb == AxisAlignedBoundingBox(obj.xyz_positions)
       IN  ret' = [NoRet EXCEPT
                     !.op = "get_screen_size",
                     !.size = get_screen_size(aabb, obj.transform, camera,
                                              screen_width_px, screen_height_px),
                     !.reads = AllRefs]
    /\ UNCHANGED <<window_width, window_height, scene_camera, obj>>

\* smaller_than_pixel(xyz_positions, transform), which builds the box and delegates
SmallerThanPixel ==
    /\ Len(obj.xyz_positions) > 0
    /\ LET local_aabb == AxisAlignedBoundingBox(obj.xyz_positions)
       IN  ret' = [NoRet EXCEPT
                     !.op = "smaller_than_pixel",
                     !.flag = smaller_than_pixel(local_aabb, obj.transform, camera,
                                                 screen_width_px, screen_height_px),
                     !.reads = AllRefs]
    /\ UNCHANGED <<window_width, window_height, scene_camera, obj>>

\* make_screen_space_ivp(obj)
MakeScreenSpaceIvp ==
    /\ ret' = [NoRet EXCEPT
                 !.op = "make_screen_space_ivp",
                 !.ivp = make_screen_space_ivp(obj, camera, screen_width_px, screen_height_px),
                 !.reads = ivp_reads(obj)]
    /\ UNCHANGED <<window_width, window_height, scene_camera, obj>>

Next ==
    \/ \E v \in Viewports : Resize(v[1], v[2])
    \/ \E c \in Cameras : MoveCamera(c)
    \/ \E ps \in PointLists : SetPoints(ps)
    \/ \E t \in Transforms : SetTransform(t)
    \/ GetScreenSize
    \/ SmallerThanPixel
    \/ MakeScreenSpaceIvp

Spec == Init /\ [][Next]_vars

(***************************************************************************)
(* Properties.  A returned value is examined in the state the call left:   *)
(* every change of the viewport, the camera or the renderable resets ret,  *)
(* so while ret.op names a call, obj and the window_* and scene_camera     *)
(* variables are the ones that call worked on.                             *)
(***************************************************************************)
PixelCall == ret.op \in {"get_screen_size", "smaller_than_pixel"}

CurBox == AxisAlignedBoundingBox(obj.xyz_positions)

CurRect ==
    compute_pixel_bounding_box(CurBox, obj.transform, scene_camera, window_width, window_height)

\* the eight corners as project_to_screen returns them, before any reduction
CurScreenCorners ==
    LET corners == get_aabb_corners_world(CurBox, obj.transform)
    IN  [i \in 1..8 |-> project_to_screen(corners[i], scene_camera, window_width, window_height)]

AllCornersFinite ==
    \A i \in 1..8 : CurScreenCorners[i][1].k = "fin" /\ CurScreenCorners[i][2].k = "fin"

\* C1: get_screen_size returns Large iff m > 10, Medium iff 5 < m <= 10 and Small
\* iff m <= 5, where m is the minimum dimension of the clamped pixel rectangle of
\* the eight projected corners; it returns nothing else.
C1_ClassifiesByMinDimension ==
    ret.op = "get_screen_size" =>
        LET m == min_dimension(CurRect)
        IN  /\ ret.size \in {"Large", "Medium", "Small"}
            /\ (ret.size = "Large") <=> Lt(I(10), m)
            /\ (ret.size = "Medium") <=> (Lt(I(5), m) /\ Le(m, I(10)))
            /\ (ret.size = "Small") <=> Le(m, I(5))

\* a call on a box whose minimum dimension is exactly 10 pixels returned Medium
C1_Witness ==
    /\ ret.op = "get_screen_size"
    /\ min_dimension(CurRect) = I(10)
    /\ ret.size = "Medium"

\* C2: whenever smaller_than_pixel returns true, get_screen_size on the same box,
\* transform, camera and viewport returns Small.
C2_SubPixelIsSmall ==
    (ret.op = "smaller_than_pixel" /\ ret.flag) =>
        get_screen_size(CurBox, obj.transform, scene_camera, window_width, window_height)
            = "Small"

\* smaller_than_pixel returned true on a box of non-zero extent on screen
C2_Witness ==
    /\ ret.op = "smaller_than_pixel"
    /\ ret.flag
    /\ Lt(Zero, min_dimension(CurRect))

\* C3: for eight finite projected corners the rectangle of
\* compute_pixel_bounding_box satisfies 0 <= min.x <= max.x <= width_px and
\* 0 <= min.y <= max.y <= height_px, so width and height are in [0, viewport].
C3_RectClippedNotInverted ==
    (PixelCall /\ AllCornersFinite) =>
        LET bb == CurRect
        IN  /\ Le(Zero, bb.min[1]) /\ Le(bb.min[1], bb.max[1])
            /\ Le(bb.max[1], I(window_width))
            /\ Le(Zero, bb.min[2]) /\ Le(bb.min[2], bb.max[2])
            /\ Le(bb.max[2], I(window_height))
            /\ Le(Zero, width(bb)) /\ Le(width(bb), I(window_width))
            /\ Le(Zero, height(bb)) /\ Le(height(bb), I(window_height))

\* a pixel-path call on finite corners of which one lies right of the viewport and
\* one inside it
C3_Witness ==
    /\ PixelCall
    /\ AllCornersFinite
    /\ \E i \in 1..8 : Lt(I(window_width), CurScreenCorners[i][1])
    /\ \E i \in 1..8 : Lt(CurScreenCorners[i][1], I(window_width))
    /\ CurRect.max[1] = I(window_width)

IvpCall == ret.op = "make_screen_space_ivp"

CurAspect == Div(I(window_width), I(window_height))

\* the eight corners in aspect-corrected NDC, as the loop of make_screen_space_ivp
\* sees them
CurNdcCorners ==
    LET corners == get_aabb_corners_world(CurBox, obj.transform)
    IN  [i \in 1..8 |->
            LET ndc == project_to_ndc(corners[i], scene_camera)
            IN  <<Mul(ndc[1], CurAspect), ndc[2]>>]

NdcCornerFinite(i) == isfinite(CurNdcCorners[i][1]) /\ isfinite(CurNdcCorners[i][2])

\* C4: every vertex of a non-empty quad of make_screen_space_ivp, for an input
\* with at least one finite projected corner, has x in [-aspect, aspect] and y in
\* [-1, 1], with aspect = width_px / height_px.
C4_QuadInsideNdcBounds ==
    (/\ IvpCall
     /\ Len(obj.xyz_positions) > 0
     /\ \E i \in 1..8 : NdcCornerFinite(i)) =>
        \A v \in 1..Len(ret.ivp.xyz_positions) :
            /\ Le(Neg(CurAspect), ret.ivp.xyz_positions[v][1])
            /\ Le(ret.ivp.xyz_positions[v][1], CurAspect)
            /\ Le(I(-1), ret.ivp.xyz_positions[v][2])
            /\ Le(ret.ivp.xyz_positions[v][2], One)

ScreenCornerFinite(i) == isfinite(CurScreenCorners[i][1]) /\ isfinite(CurScreenCorners[i][2])

\* the reduction of compute_pixel_bounding_box with every non-finite corner skipped
RECURSIVE SkippingLoop(_, _)
SkippingLoop(i, acc) ==
    IF i > 8 THEN acc
    ELSE SkippingLoop(i + 1, IF ScreenCornerFinite(i) THEN FoldCorner(acc, CurScreenCorners[i])
                             ELSE acc)

SkippingRect ==
    LET acc == SkippingLoop(1, Sentinels)
    IN  [min |-> <<std_clamp(acc.min_x, Zero, I(window_width)),
                   std_clamp(acc.min_y, Zero, I(window_height))>>,
         max |-> <<std_clamp(acc.max_x, Zero, I(window_width)),
                   std_clamp(acc.max_y, Zero, I(window_height))>>]

\* C5: in the pixel-space path a corner whose projection is non-finite (clip.w = 0)
\* is skipped, never folded into the min/max reduction, and the rectangle's min
\* and max are finite: the rectangle is the one reduced from the finite corners.
C5_NonFiniteCornersSkipped ==
    PixelCall =>
        /\ CurRect = SkippingRect
        /\ \A c \in 1..2 : isfinite(CurRect.min[c]) /\ isfinite(CurRect.max[c])

\* C6: when all eight corners are skipped as non-finite, make_screen_space_ivp
\* returns the empty quad of the empty-input case: no positions, no indices.
C6_AllSkippedGivesEmptyQuad ==
    (/\ IvpCall
     /\ Len(obj.xyz_positions) > 0
     /\ \A i \in 1..8 : ~NdcCornerFinite(i)) =>
        /\ ret.ivp.xyz_positions = <<>>
        /\ ret.ivp.indices = <<>>

\* C7: make_screen_space_ivp on an empty point list returns the empty quad (no
\* positions, no indices) at once, reading neither camera nor viewport; on every
\* non-empty point list the result has 4 positions and the indices 0,1,2,2,3,0.
C7_EmptyInputEmptyQuad ==
    IvpCall =>
        IF Len(obj.xyz_positions) = 0
        THEN /\ ret.ivp.xyz_positions = <<>>
             /\ ret.ivp.indices = <<>>
             /\ ret.reads = {}
        ELSE /\ Len(ret.ivp.xyz_positions) = 4
             /\ ret.ivp.indices = <<0, 1, 2, 2, 3, 0>>

\* make_screen_space_ivp has returned on a renderable without points
C7_Witness == IvpCall /\ Len(obj.xyz_positions) = 0

SizeOrder(size) == CASE size = "Small" -> 0 [] size = "Medium" -> 1 [] size = "Large" -> 2

\* all eight projected corners of the box of ps under t are finite and in the viewport
InsideViewport(ps, t, cam, width_px, height_px) ==
    LET corners == get_aabb_corners_world(AxisAlignedBoundingBox(ps), t)
    IN  \A i \in 1..8 :
            LET p == project_to_screen(corners[i], cam, width_px, height_px)
            IN  /\ p[1].k = "fin" /\ Le(Zero, p[1]) /\ Le(p[1], I(width_px))
                /\ p[2].k = "fin" /\ Le(Zero, p[2]) /\ Le(p[2], I(height_px))

\* per camera and viewport, what the sizer computes on each box of the bounded
\* inputs: whether it is inside the viewport, its pixel rectangle, its class
BoxResults ==
    [cam \in Cameras, v \in Viewports |->
        {[inside |-> InsideViewport(x[1], x[2], cam, v[1], v[2]),
          rect |-> compute_pixel_bounding_box(AxisAlignedBoundingBox(x[1]), x[2], cam,
                                              v[1], v[2]),
          size |-> get_screen_size(AxisAlignedBoundingBox(x[1]), x[2], cam, v[1], v[2])] :
            x \in (PointLists \ {<<>>}) \X Transforms}]

CurBoxResults == BoxResults[scene_camera, <<window_width, window_height>>]

CurInside ==
    InsideViewport(obj.xyz_positions, obj.transform, scene_camera, window_width, window_height)

Contained(inner, outer) ==
    /\ Le(outer.min[1], inner.min[1]) /\ Le(inner.max[1], outer.max[1])
    /\ Le(outer.min[2], inner.min[2]) /\ Le(inner.max[2], outer.max[2])

\* C8: under one camera and viewport, for two boxes fully inside the viewport, if
\* the pixel rectangle of the first is contained in that of the second, then the
\* second is classified at least as large (Small < Medium < Large) as the first.
C8_MonotonicInRectangle ==
    (ret.op = "get_screen_size" /\ CurInside) =>
        LET cur == CurRect
        IN  \A other \in CurBoxResults :
                (other.inside /\ Contained(cur, other.rect)) =>
                    SizeOrder(ret.size) <= SizeOrder(other.size)

\* get_screen_size returned Medium on a box inside the viewport, and a box whose
\* rectangle contains this one's, also inside the viewport, is classified Large
C8_Witness ==
    /\ ret.op = "get_screen_size"
    /\ CurInside
    /\ ret.size = "Medium"
    /\ LET cur == CurRect
       IN  \E other \in CurBoxResults :
               other.inside /\ Contained(cur, other.rect) /\ other.size = "Large"

\* what a call of op on renderable o returns under camera cam and a viewport of
\* width_px by height_px
ResultWith(op, o, cam, width_px, height_px) ==
    CASE op = "get_screen_size" ->
            [NoRet EXCEPT !.op = op,
                          !.size = get_screen_size(AxisAlignedBoundingBox(o.xyz_positions),
                                                   o.transform, cam, width_px, height_px),
                          !.reads = AllRefs]
      [] op = "smaller_than_pixel" ->
            [NoRet EXCEPT !.op = op,
                          !.flag = smaller_than_pixel(AxisAlignedBoundingBox(o.xyz_positions),
                                                      o.transform, cam, width_px, height_px),
                          !.reads = AllRefs]
      [] op = "make_screen_space_ivp" ->
            [NoRet EXCEPT !.op = op,
                          !.ivp = make_screen_space_ivp(o, cam, width_px, height_px),
                          !.reads = ivp_reads(o)]

\* C9: every call computes with the viewport dimensions (and camera) the caller's
\* variables hold at the time of the call, whatever they were at construction,
\* and no call changes the viewport dimensions or the camera.
C9_ViewportReadLive ==
    [][ret'.op # "none" =>
            /\ UNCHANGED <<window_width, window_height, scene_camera>>
            /\ ret' = ResultWith(ret'.op, obj, scene_camera, window_width, window_height)]_vars

\* a call made after a resize returned a class the viewport of construction
\* would not have given
C9_Witness ==
    /\ ret.op = "get_screen_size"
    /\ <<window_width, window_height>> # InitialViewport
    /\ ret.size # get_screen_size(CurBox, obj.transform, scene_camera,
                                  InitialViewport[1], InitialViewport[2])

PerCornerRect ==
    compute_pixel_bounding_box_per_corner(CurBox, obj.transform, scene_camera,
                                          window_width, window_height)

InViewport(p) ==
    /\ Le(Zero, p[1]) /\ Le(p[1], I(window_width))
    /\ Le(Zero, p[2]) /\ Le(p[2], I(window_height))

\* no projected corner is NaN, one lies in the viewport and one outside it
Straddles ==
    LET sc == CurScreenCorners
    IN  /\ \A i \in 1..8 : sc[i][1].k # "nan" /\ sc[i][2].k # "nan"
        /\ \E i \in 1..8 : InViewport(sc[i])
        /\ \E i \in 1..8 : ~InViewport(sc[i])

\* C10 as stated: for a box whose projected corners straddle the viewport edge,
\* clamping each corner before the reduction yields a different rectangle than
\* clamping the reduced min/max afterwards.
C10_PoliciesDiffer ==
    (PixelCall /\ Straddles) => PerCornerRect # CurRect

\* C10 as amended: for a box whose projected corners straddle the viewport edge,
\* clamping each corner before the reduction yields the same rectangle as
\* clamping the reduced min/max afterwards.
C10_PoliciesAgree ==
    (PixelCall /\ Straddles) => PerCornerRect = CurRect

\* a pixel-path call on a straddling box whose rectangle the clamp has cut
C10_Witness ==
    /\ PixelCall
    /\ Straddles
    /\ \E i \in 1..8 : Lt(I(window_width), CurScreenCorners[i][1])
    /\ Lt(CurRect.min[1], CurRect.max[1])

====
